---- MODULE Spec2Model ----
(***************************************************************************)
(* Model of the benchmark orchestrator (orchestrator.py): the main thread  *)
(* that builds a thread pool, submits one run_workload call per            *)
(* (image, script) pair and collects the futures, and the workers that     *)
(* execute run_workload against the Docker daemon.                         *)
(***************************************************************************)
EXTENDS Integers, Sequences, FiniteSets, TLC

\* ---------------------------------------------------------------- bounds
\* The iterations argument of run_workload.
Iterations == 2
\* The largest value of the MAX_WORKERS environment variable.
MaxWorkersEnv == 1
\* The longest result list handed to generate_html_report on its own.
MaxReportLen == 3

\* ------------------------------------------------------------- constants
\* ThreadPoolExecutor(max_workers=None) sizes the pool itself
\* (min(32, cpu_count + 4), hence at least 5 threads).
DefaultPoolSize == 5

WORKLOADS_DIR == "./workloads"

\* Values of the MAX_WORKERS environment variable, as parsed by int().
EnvWorkerValues == (0 - 1) .. MaxWorkersEnv

\* MAX_WORKERS = int(os.getenv("MAX_WORKERS", "0")) or None
\* None is <<>>, an integer n is <<n>>.
MAX_WORKERS(env) == IF env = 0 THEN <<>> ELSE <<env>>

\* IMAGES = os.getenv("IMAGES", ...).split(","): two distinct images, so that
\* two calls of run_workload can be in flight together.
IMAGES == <<1, 2>>

\* scripts: the files discovered in WORKLOADS_DIR, as <<dir, file>> paths.
scripts == << <<WORKLOADS_DIR, "tf_inference_test.py">> >>

\* os.path.basename(script_path)
basename(path) == path[2]

\* The submitted calls, in submission order:
\* [exe.submit(run_workload, img, scr) for img in IMAGES for scr in scripts]
NumTasks == Len(IMAGES) * Len(scripts)
Tasks == 1 .. NumTasks
TaskImage(t) == IMAGES[((t - 1) \div Len(scripts)) + 1]
TaskScript(t) == scripts[((t - 1) % Len(scripts)) + 1]

Iters == 1 .. Iterations
Triples == Tasks \X Iters

\* Outcomes of container.wait(timeout=timeout)
WaitOutcomes == {"wait_timeout", "exit_zero", "exit_nonzero"}
\* exit_info.get("StatusCode")
StatusCode(o) == IF o = "exit_zero" THEN 0 ELSE 1

VARIABLES
    envWorkers,   \* the MAX_WORKERS environment value
    mainPc,       \* position of the main thread
    nextSubmit,   \* index of the next call to submit
    state,        \* per task: position of its run_workload call
    iter,         \* per task: the loop variable i
    container,    \* per task: the local variable container is not None
    metrics,      \* per task: the local list metrics
    collected,    \* futures whose result the main thread has taken
    all_metrics,  \* the result list of the main thread
    rows,         \* the rows built by generate_html_report
    existing,     \* how many containers exist in the Docker daemon
    runCalls,     \* history: triples for which containers.run was called
    pullFailed,   \* history: tasks whose image pull raised
    outcome,      \* history: how each iteration ended
    writes,       \* the outcomes of the write_api.write calls so far
    samples,      \* history, per task: the readings taken and what the container did then
    stats,        \* a reading returned by container.stats
    computed      \* the fields of a record computed from a reading

vars == <<envWorkers, mainPc, nextSubmit, state, iter, container, metrics,
          collected, all_metrics, rows, existing, runCalls, pullFailed, outcome, writes, samples, stats, computed>>

mainVars == <<envWorkers, mainPc, nextSubmit, collected, all_metrics, rows, writes,
              stats, computed>>

Init ==
    /\ envWorkers \in EnvWorkerValues
    /\ mainPc = "start"
    /\ nextSubmit = 1
    /\ state = [t \in Tasks |-> "new"]
    /\ iter = [t \in Tasks |-> 0]
    /\ container = [t \in Tasks |-> FALSE]
    /\ metrics = [t \in Tasks |-> <<>>]
    /\ collected = {}
    /\ all_metrics = <<>>
    /\ rows = <<>>
    /\ existing = 0
    /\ runCalls = {}
    /\ pullFailed = {}
    /\ outcome = [tr \in Triples |-> "none"]
    /\ writes = <<>>
    /\ samples = [t \in Tasks |-> <<>>]
    /\ stats = <<>>
    /\ computed = <<>>

\* ------------------------------------------------------------ main thread

\* ThreadPoolExecutor.__init__: max_workers None picks the default size,
\* max_workers <= 0 raises ValueError.
PoolSize(mw) == IF mw = <<>> THEN DefaultPoolSize ELSE mw[1]

PoolRejects(mw) == mw # <<>> /\ mw[1] <= 0

\* with ThreadPoolExecutor(max_workers=MAX_WORKERS) as exe:
CreatePool ==
    /\ mainPc = "start"
    /\ mainPc' = IF PoolRejects(MAX_WORKERS(envWorkers)) THEN "crashed" ELSE "submit"
    /\ UNCHANGED <<envWorkers, nextSubmit, state, iter, container, metrics,
                   collected, all_metrics, rows, existing, runCalls, pullFailed, outcome, writes, samples, stats, computed>>

\* exe.submit(run_workload, img, scr): the call is queued.
Submit ==
    /\ mainPc = "submit"
    /\ state' = [state EXCEPT ![nextSubmit] = "queued"]
    /\ nextSubmit' = nextSubmit + 1
    /\ mainPc' = IF nextSubmit = NumTasks THEN "collect" ELSE "submit"
    /\ UNCHANGED <<envWorkers, iter, container, metrics, collected, all_metrics,
                   rows, existing, runCalls, pullFailed, outcome, writes, samples, stats, computed>>

\* Mutant of Extend: all_metrics = fut.result() (assignment instead of extend).
ExtendOverwrites(all, result) == result

\* all_metrics.extend(fut.result())
Extend(all, result) == all \o result

\* Mutant of Collect: the result of a call is taken while the call still runs.
CollectUnfinished(t) ==
    /\ mainPc = "collect"
    /\ state[t] \notin {"new", "queued"}
    /\ t \notin collected
    /\ all_metrics' = Extend(all_metrics, metrics[t])
    /\ collected' = collected \cup {t}
    /\ UNCHANGED <<envWorkers, mainPc, nextSubmit, state, iter, container, metrics,
                   rows, existing, runCalls, pullFailed, outcome, writes, samples, stats, computed>>

\* for fut in as_completed(futures): all_metrics.extend(fut.result())
Collect(t) ==
    /\ mainPc = "collect"
    /\ state[t] = "finished"
    /\ t \notin collected
    /\ all_metrics' = Extend(all_metrics, metrics[t])
    /\ collected' = collected \cup {t}
    /\ UNCHANGED <<envWorkers, mainPc, nextSubmit, state, iter, container, metrics,
                   rows, existing, runCalls, pullFailed, outcome, writes, samples, stats, computed>>

\* Mutant of ExitPool: the main thread leaves the pool without waiting for
\* the futures that are still pending.
ExitPoolWithoutWaiting ==
    /\ mainPc = "collect"
    /\ mainPc' = "done"
    /\ UNCHANGED <<envWorkers, nextSubmit, state, iter, container, metrics,
                   collected, all_metrics, rows, existing, runCalls, pullFailed, outcome, writes, samples, stats, computed>>

\* as_completed is exhausted and the with block exits (shutdown(wait=True)).
ExitPool ==
    /\ mainPc = "collect"
    /\ collected = Tasks
    /\ mainPc' = "done"
    /\ UNCHANGED <<envWorkers, nextSubmit, state, iter, container, metrics,
                   collected, all_metrics, rows, existing, runCalls, pullFailed, outcome, writes, samples, stats, computed>>

\* ---------------------------------------------------------------- workers

Running == {t \in Tasks : state[t] \notin {"new", "queued", "finished"}}
Queued == {t \in Tasks : state[t] = "queued"}

\* A pool thread takes the oldest queued call, if a thread is available.
StartTask(t) ==
    /\ state[t] = "queued"
    /\ \A u \in Queued : t <= u
    /\ Cardinality(Running) < PoolSize(MAX_WORKERS(envWorkers))
    /\ state' = [state EXCEPT ![t] = "pull"]
    /\ UNCHANGED <<mainVars, samples, iter, container, metrics, existing, runCalls,
                   pullFailed, outcome>>

\* Mutant of Pull: the except block lacks its return, the loop runs anyway.
PullWithoutReturn(t) ==
    /\ state[t] = "pull"
    /\ \E ok \in BOOLEAN :
         /\ state' = [state EXCEPT ![t] = "run"]
         /\ iter' = [iter EXCEPT ![t] = 1]
         /\ pullFailed' = IF ok THEN pullFailed ELSE pullFailed \cup {t}
    /\ UNCHANGED <<mainVars, samples, container, metrics, existing, runCalls, outcome>>

\* docker_client.images.pull(image); on an exception: return []
Pull(t) ==
    /\ state[t] = "pull"
    /\ \E ok \in BOOLEAN :
         IF ok
         THEN /\ state' = [state EXCEPT ![t] = "run"]
              /\ iter' = [iter EXCEPT ![t] = 1]
              /\ UNCHANGED pullFailed
         ELSE /\ state' = [state EXCEPT ![t] = "finished"]
              /\ pullFailed' = pullFailed \cup {t}
              /\ UNCHANGED iter
    /\ UNCHANGED <<mainVars, samples, container, metrics, existing, runCalls, outcome>>

\* Mutant of AfterIteration: "return metrics" sits inside the loop body.
AfterIterationReturns(t) ==
    /\ state' = [state EXCEPT ![t] = "finished"]
    /\ UNCHANGED iter

\* The end of one pass of "for i in range(1, iterations + 1)": the next
\* pass, or "return metrics".
AfterIteration(t) ==
    IF iter[t] < Iterations
    THEN /\ iter' = [iter EXCEPT ![t] = iter[t] + 1]
         /\ state' = [state EXCEPT ![t] = "run"]
    ELSE /\ state' = [state EXCEPT ![t] = "finished"]
         /\ UNCHANGED iter

\* container = None; container = docker_client.containers.run(..., detach=True)
\* An exception leaves container None, so that the finally block does nothing.
ContainersRun(t) ==
    /\ state[t] = "run"
    /\ runCalls' = runCalls \cup {<<t, iter[t]>>}
    /\ \E ok \in BOOLEAN :
         IF ok
         THEN /\ container' = [container EXCEPT ![t] = TRUE]
              /\ existing' = existing + 1
              /\ state' = [state EXCEPT ![t] = "stats"]
              /\ UNCHANGED <<iter, outcome>>
         ELSE /\ container' = [container EXCEPT ![t] = FALSE]
              /\ outcome' = [outcome EXCEPT ![<<t, iter[t]>>] = "run_raises"]
              /\ AfterIteration(t)
              /\ UNCHANGED existing
    /\ UNCHANGED <<mainVars, samples, metrics, pullFailed>>

\* What the container of a task is doing, as far as the calls made so far
\* tell: containers.run(detach=True) returns once the container has started,
\* and only a returning wait tells that it has ended.
ContainerPhase(t) ==
    IF state[t] \in {"stats", "wait"} THEN "started"
    ELSE IF state[t] = "finally" /\ outcome[<<t, iter[t]>>] \in {"exit_zero", "exit_nonzero"}
         THEN "ended"
    ELSE IF state[t] = "finally" THEN "started"
    ELSE "not_started"

\* Mutant of Sampled: the reading is not kept.
SampledNothing(ss, t, i, phase) == ss

\* A reading returned by container.stats for iteration i of task t.
Sampled(ss, t, i, phase) == [ss EXCEPT ![t] = Append(@, <<i, phase>>)]

\* stats = container.stats(stream=False)
Stats(t) ==
    /\ state[t] = "stats"
    /\ \E ok \in BOOLEAN :
         IF ok
         THEN /\ state' = [state EXCEPT ![t] = "wait"]
              /\ samples' = Sampled(samples, t, iter[t], ContainerPhase(t))
              /\ UNCHANGED outcome
         ELSE /\ state' = [state EXCEPT ![t] = "finally"]
              /\ outcome' = [outcome EXCEPT ![<<t, iter[t]>>] = "stats_raises"]
              /\ UNCHANGED samples
    /\ UNCHANGED <<mainVars, iter, container, metrics, existing, runCalls, pullFailed>>

\* What one run measures: t1 - t0 and the percentages computed from stats.
\* The scheduling model uses a single representative reading.
Readings == {[runtime_s |-> 1, cpu_percent |-> 0, mem_percent |-> 0]}

\* The record appended by metrics.append({...}).
MakeRecord(image, workload, i, reading, status) ==
    [image |-> image, workload |-> workload, iteration |-> i,
     runtime_s |-> reading.runtime_s, cpu_percent |-> reading.cpu_percent,
     mem_percent |-> reading.mem_percent, status |-> status]

\* Mutant of Record: the record does not carry the loop variable.
RecordOfFirstIteration(t, i, reading, status) ==
    MakeRecord(TaskImage(t), basename(TaskScript(t)), 1, reading, status)

Record(t, i, reading, status) ==
    MakeRecord(TaskImage(t), basename(TaskScript(t)), i, reading, status)

\* Mutant of Appended: a timeout is recorded like a failed exit.
AppendedOnTimeout(m, t, i, reading, o) ==
    Append(m, Record(t, i, reading, StatusCode(o)))

\* Mutant of Appended: only a run that exits with status 0 is recorded.
AppendedIfZero(m, t, i, reading, o) ==
    IF o = "exit_zero" THEN Append(m, Record(t, i, reading, StatusCode(o))) ELSE m

\* exit_info = container.wait(timeout=timeout); ...; metrics.append({...})
\* A timeout is an exception raised by wait: nothing is appended.
Appended(m, t, i, reading, o) ==
    IF o = "wait_timeout" THEN m ELSE Append(m, Record(t, i, reading, StatusCode(o)))

Wait(t) ==
    /\ state[t] = "wait"
    /\ \E o \in WaitOutcomes, reading \in Readings :
         /\ metrics' = [metrics EXCEPT ![t] =
                           Appended(metrics[t], t, iter[t], reading, o)]
         /\ outcome' = [outcome EXCEPT ![<<t, iter[t]>>] = o]
    /\ state' = [state EXCEPT ![t] = "finally"]
    /\ UNCHANGED <<mainVars, samples, iter, container, existing, runCalls, pullFailed>>

\* container.remove(force=True): the container is gone unless the call raises.
Removed(n, ok) == IF ok THEN n - 1 ELSE n

\* finally: if container: try: container.remove(force=True) except: pass
Finally(t) ==
    /\ state[t] = "finally"
    /\ container[t]
    /\ \E ok \in BOOLEAN :
         existing' = Removed(existing, ok)
    /\ AfterIteration(t)
    /\ UNCHANGED <<mainVars, samples, container, metrics, runCalls, pullFailed, outcome>>

Worker(t) ==
    \/ StartTask(t)
    \/ Pull(t)
    \/ ContainersRun(t)
    \/ Stats(t)
    \/ Wait(t)
    \/ Finally(t)

Next ==
    \/ CreatePool
    \/ Submit
    \/ \E t \in Tasks : Collect(t)
    \/ ExitPool
    \/ \E t \in Tasks : Worker(t)

Spec == Init /\ [][Next]_vars

\* The program does not halt while one of its threads can take a step: the
\* main thread and the pool threads are operating-system threads, and every
\* Docker call a worker makes returns or raises.
FairSpec == Spec /\ WF_vars(Next)

\* ------------------------------------------------------------- properties

\* The scheduler loop has collected all futures.
AllCollected == mainPc = "done"

\* The positions of all_metrics that hold a record of iteration i of call t.
RecordsOf(t, i) ==
    {k \in 1 .. Len(all_metrics) :
        /\ all_metrics[k].image = TaskImage(t)
        /\ all_metrics[k].workload = basename(TaskScript(t))
        /\ all_metrics[k].iteration = i}

\* Iteration i of call t ran to the end of its try block.
Completed(t, i) == outcome[<<t, i>>] \in {"exit_zero", "exit_nonzero"}

Raised(t, i) == outcome[<<t, i>>] \in {"run_raises", "stats_raises", "wait_timeout"}

Holding == {t \in Tasks : state[t] \in {"stats", "wait", "finally"}}

\* C2: the only containers that exist are those of the iterations in
\* progress: none outlives the iteration that started it, so none exists when
\* the next iteration starts its container nor when run_workload returns.
C2_ContainersRemoved == existing = Cardinality(Holding)

AllAttempted ==
    \A t \in Tasks : t \in pullFailed \/ \A i \in Iters : <<t, i>> \in runCalls

C4_FailuresDoNotCancel == (mainPc = "submit") ~> (AllCollected /\ AllAttempted)

C4_Witness ==
    /\ AllCollected
    /\ pullFailed = {1}
    /\ outcome[<<2, 1>>] = "stats_raises"
    /\ existing = 1
    /\ <<2, 2>> \in runCalls

\* C5: with MAX_WORKERS = n > 0, at most n containers are started and not
\* yet removed.
C5_ContainersBounded == envWorkers > 0 => existing <= envWorkers

\* C6: a MAX_WORKERS value <= 0 never ends the run in an error.
C6_NonPositiveIsUnbounded == envWorkers <= 0 => mainPc # "crashed"

\* The result set, compared by image, workload, iteration and status.
ResultSet ==
    {<<all_metrics[k].image, all_metrics[k].workload,
       all_metrics[k].iteration, all_metrics[k].status>> :
        k \in 1 .. Len(all_metrics)}

\* The result set that the outcomes of the external calls determine.
ExpectedResultSet ==
    {<<TaskImage(tr[1]), basename(TaskScript(tr[1])), tr[2],
       IF outcome[tr] = "exit_zero" THEN 0 ELSE 1>> :
        tr \in {x \in Triples : Completed(x[1], x[2])}}

\* C7: once all futures are collected, the set of results is a function of
\* the outcomes of the external calls alone: it is the same for every pool
\* size and every interleaving, only the order of all_metrics varies.
C7_ResultSetDetermined ==
    AllCollected =>
        /\ ResultSet = ExpectedResultSet
        /\ Len(all_metrics) = Cardinality(ExpectedResultSet)

\* The records of the later call arrived before those of the earlier call.
C7_Witness ==
    /\ AllCollected
    /\ envWorkers = 1
    /\ Len(all_metrics) = 2 * Iterations
    /\ all_metrics[1].image = TaskImage(2)
    /\ all_metrics[Len(all_metrics)].image = TaskImage(1)

\* C8: a call whose pull failed never calls containers.run, starts no
\* container and returns an empty list, and the calls for the other images
\* run all their iterations.
C8_PullFailureShortCircuits ==
    /\ \A t \in pullFailed :
          /\ \A i \in Iters : <<t, i>> \notin runCalls
          /\ metrics[t] = <<>>
          /\ state[t] = "finished"
    /\ AllCollected => AllAttempted

C8_Witness ==
    /\ AllCollected
    /\ pullFailed = {2}
    /\ \A i \in Iters : outcome[<<1, i>>] = "exit_zero"

\* ------------------------------------------------------------- the report

\* The workload names, in ascending string order.
WorkloadNames == <<"gpt2_inference.py", "tf_inference_test.py">>

\* The position of a workload name in the string order.
NameRank(w) == CHOOSE k \in 1 .. Len(WorkloadNames) : WorkloadNames[k] = w

\* (a[0], a[1]) < (b[0], b[1]), the order of rows.sort(key=lambda r: (r[0], r[1]))
KeyLess(a, b) ==
    \/ a[1] < b[1]
    \/ a[1] = b[1] /\ NameRank(a[2]) < NameRank(b[2])

\* key = (m["image"], m["workload"])
KeyOf(m) == <<m.image, m.workload>>

\* The keys of summary in insertion order (summary.setdefault(key, ...)).
RECURSIVE SummaryKeys(_)
SummaryKeys(ms) ==
    IF ms = <<>> THEN <<>>
    ELSE LET front == SummaryKeys(SubSeq(ms, 1, Len(ms) - 1))
             key == KeyOf(ms[Len(ms)])
         IN IF \E k \in 1 .. Len(front) : front[k] = key
            THEN front
            ELSE Append(front, key)

\* The records that the loop over metrics files under a key.
GroupOf(ms, key) == SelectSeq(ms, LAMBDA m : KeyOf(m) = key)

RECURSIVE SumSeq(_)
SumSeq(xs) == IF xs = <<>> THEN 0 ELSE xs[1] + SumSeq(Tail(xs))

RECURSIVE Gcd(_, _)
Gcd(a, b) == IF b = 0 THEN a ELSE Gcd(b, a % b)

\* statistics.mean(xs) of a non-empty list, as the fraction <<num, den>> in
\* lowest terms.
Mean(xs) ==
    LET total == SumSeq(xs)
        g == Gcd(Len(xs), total)
    IN <<total \div g, Len(xs) \div g>>

Runtimes(ms) == [k \in 1 .. Len(ms) |-> ms[k].runtime_s]
Cpus(ms) == [k \in 1 .. Len(ms) |-> ms[k].cpu_percent]
Mems(ms) == [k \in 1 .. Len(ms) |-> ms[k].mem_percent]

\* rows.append((img, wl, avg_rt, avg_cpu, avg_mem)) for one key of summary
RowOf(ms, key) ==
    LET data == GroupOf(ms, key)
    IN <<key[1], key[2], Mean(Runtimes(data)), Mean(Cpus(data)), Mean(Mems(data))>>

\* rows.sort(key=lambda r: (r[0], r[1])): insertion of one row in order.
RECURSIVE InsertRow(_, _)
InsertRow(sorted, row) ==
    IF sorted = <<>> THEN <<row>>
    ELSE IF KeyLess(row, sorted[1]) THEN <<row>> \o sorted
    ELSE <<sorted[1]>> \o InsertRow(Tail(sorted), row)

RECURSIVE SortRows(_)
SortRows(rs) ==
    IF rs = <<>> THEN <<>>
    ELSE InsertRow(SortRows(SubSeq(rs, 1, Len(rs) - 1)), rs[Len(rs)])

\* Mutant of generate_html_report: rows.sort is left out.
generate_html_report_unsorted(ms) ==
    LET keys == SummaryKeys(ms)
    IN [k \in 1 .. Len(keys) |-> RowOf(ms, keys[k])]

\* The rows of generate_html_report(metrics).
generate_html_report(ms) ==
    LET keys == SummaryKeys(ms)
    IN SortRows([k \in 1 .. Len(keys) |-> RowOf(ms, keys[k])])

\* The call generate_html_report(all_metrics).
GenerateReport ==
    /\ mainPc = "report"
    /\ rows' = generate_html_report(all_metrics)
    /\ mainPc' = "reported"
    /\ UNCHANGED <<envWorkers, nextSubmit, state, iter, container, metrics,
                   collected, all_metrics, existing, runCalls, pullFailed, outcome, writes, samples, stats, computed>>

ReportReadings ==
    {[runtime_s |-> 1, cpu_percent |-> 0, mem_percent |-> 0],
     [runtime_s |-> 3, cpu_percent |-> 50, mem_percent |-> 20]}

ReportImages == {IMAGES[k] : k \in 1 .. Len(IMAGES)}
ReportWorkloads == {WorkloadNames[k] : k \in 1 .. Len(WorkloadNames)}

\* What the report reads of a record, apart from its iteration number.
ReportShapes ==
    [image : ReportImages, workload : ReportWorkloads,
     reading : ReportReadings, status : {0, 1}]

\* The records of a list of shapes: the records of one call are numbered
\* in the order of their iterations.
Listed(f) ==
    [k \in 1 .. Len(f) |->
        MakeRecord(f[k].image, f[k].workload,
                   Cardinality({j \in 1 .. k : f[j].image = f[k].image
                                               /\ f[j].workload = f[k].workload}),
                   f[k].reading, f[k].status)]

\* A list that the scheduler loop can produce: the records of one call are
\* adjacent and in increasing iteration order.
Collectable(ms) ==
    /\ \A k \in 1 .. Len(ms) : ms[k].iteration \in Iters
    /\ \A k, l \in 1 .. Len(ms) :
        (k < l /\ KeyOf(ms[k]) = KeyOf(ms[l])) =>
            /\ ms[k].iteration < ms[l].iteration
            /\ \A j \in k .. l : KeyOf(ms[j]) = KeyOf(ms[k])

ReportInputs ==
    {ms \in {Listed(f) : f \in UNION {[1 .. n -> ReportShapes] : n \in 0 .. MaxReportLen}} :
        Collectable(ms)}

InitReport ==
    /\ envWorkers = 0
    /\ mainPc = "report"
    /\ nextSubmit = NumTasks + 1
    /\ state = [t \in Tasks |-> "finished"]
    /\ iter = [t \in Tasks |-> 0]
    /\ container = [t \in Tasks |-> FALSE]
    /\ metrics = [t \in Tasks |-> <<>>]
    /\ collected = Tasks
    /\ all_metrics \in ReportInputs
    /\ rows = <<>>
    /\ existing = 0
    /\ runCalls = {}
    /\ pullFailed = {}
    /\ outcome = [tr \in Triples |-> "none"]
    /\ writes = <<>>
    /\ samples = [t \in Tasks |-> <<>>]
    /\ stats = <<>>
    /\ computed = <<>>

NextReport == GenerateReport

\* generate_html_report applied to every result list within the bounds.
SpecReport == InitReport /\ [][NextReport]_vars

\* A mean that is reported as undefined.
Undefined == <<>>

\* The records of a group that are successful runs (exit status 0).
Successful(ms) == SelectSeq(ms, LAMBDA m : m.status = 0)

ReportKeys == {KeyOf(all_metrics[k]) : k \in 1 .. Len(all_metrics)}

\* C9: a group without a successful record has a row, and the three means
\* of that row are undefined.
C9_NoSuccessIsUndefined ==
    mainPc = "reported" =>
        \A key \in ReportKeys :
            Successful(GroupOf(all_metrics, key)) = <<>> =>
                \E k \in 1 .. Len(rows) :
                    /\ <<rows[k][1], rows[k][2]>> = key
                    /\ rows[k][3] = Undefined
                    /\ rows[k][4] = Undefined
                    /\ rows[k][5] = Undefined

\* C10: the three means of a group are the means over its successful
\* records only.
C10_MeansOverSuccessful ==
    mainPc = "reported" =>
        \A key \in ReportKeys :
            LET good == Successful(GroupOf(all_metrics, key))
            IN good # <<>> =>
                \E k \in 1 .. Len(rows) :
                    /\ <<rows[k][1], rows[k][2]>> = key
                    /\ rows[k][3] = Mean(Runtimes(good))
                    /\ rows[k][4] = Mean(Cpus(good))
                    /\ rows[k][5] = Mean(Mems(good))

\* ------------------------------------------------- the time-series sink

\* INFLUX_BUCKET = os.getenv("INFLUX_BUCKET", "runpod_bench")
INFLUX_BUCKET == "runpod_bench"

\* if INFLUX_BUCKET: push_to_influx(all_metrics), else straight to the dump.
BeginPush ==
    /\ mainPc = "done"
    /\ mainPc' = IF INFLUX_BUCKET # "" THEN "push" ELSE "dump"
    /\ UNCHANGED <<envWorkers, nextSubmit, state, iter, container, metrics,
                   collected, all_metrics, rows, existing, runCalls, pullFailed,
                   outcome, writes, samples, stats, computed>>

\* Where the main thread is after write_api.write(...) of one point: the
\* call is not guarded, an exception leaves push_to_influx and the program.
AfterWrite(ok) == IF ok THEN "push" ELSE "aborted"

\* for p in points: pt = Point(...); write_api.write(..., record=pt)
WritePoint ==
    /\ mainPc = "push"
    /\ Len(writes) < Len(all_metrics)
    /\ \E ok \in BOOLEAN :
         /\ writes' = Append(writes, ok)
         /\ mainPc' = AfterWrite(ok)
    /\ UNCHANGED <<envWorkers, nextSubmit, state, iter, container, metrics,
                   collected, all_metrics, rows, existing, runCalls, pullFailed,
                   outcome, samples, stats, computed>>

\* The loop of push_to_influx is exhausted and the call returns.
EndPush ==
    /\ mainPc = "push"
    /\ Len(writes) = Len(all_metrics)
    /\ mainPc' = "dump"
    /\ UNCHANGED <<envWorkers, nextSubmit, state, iter, container, metrics,
                   collected, all_metrics, rows, existing, runCalls, pullFailed,
                   outcome, writes, samples, stats, computed>>

InitPush ==
    /\ envWorkers = 0
    /\ mainPc = "push"
    /\ nextSubmit = NumTasks + 1
    /\ state = [t \in Tasks |-> "finished"]
    /\ iter = [t \in Tasks |-> 0]
    /\ container = [t \in Tasks |-> FALSE]
    /\ metrics = [t \in Tasks |-> <<>>]
    /\ collected = Tasks
    /\ all_metrics \in ReportInputs
    /\ rows = <<>>
    /\ existing = 0
    /\ runCalls = {}
    /\ pullFailed = {}
    /\ outcome = [tr \in Triples |-> "none"]
    /\ writes = <<>>
    /\ samples = [t \in Tasks |-> <<>>]
    /\ stats = <<>>
    /\ computed = <<>>

NextPush == WritePoint \/ EndPush

\* push_to_influx applied to every list of points within the bounds.
SpecPush == InitPush /\ [][NextPush]_vars

\* The main thread has left push_to_influx, by return or by exception.
PushOver == mainPc \in {"dump", "aborted"}

\* C11: when push_to_influx is over, the write of every point of the list
\* has been attempted, whichever writes failed.
C11_EveryPointAttempted == PushOver => Len(writes) = Len(all_metrics)

\* ------------------------------------------------------- the whole run

\* with open("metrics.json", "w") as jf: json.dump(all_metrics, jf, indent=2)
Dump ==
    /\ mainPc = "dump"
    /\ mainPc' = "report"
    /\ UNCHANGED <<envWorkers, nextSubmit, state, iter, container, metrics,
                   collected, all_metrics, rows, existing, runCalls, pullFailed,
                   outcome, writes, samples, stats, computed>>

\* The main block from the pool to generate_html_report(all_metrics).
NextFull ==
    \/ Next
    \/ BeginPush
    \/ WritePoint
    \/ EndPush
    \/ Dump
    \/ GenerateReport

SpecFull == Init /\ [][NextFull]_vars

\* The program does not halt while one of its threads can take a step.
FairFull == SpecFull /\ WF_vars(NextFull)

\* metrics.json has been written.
DumpWritten == mainPc \in {"report", "reported"}

\* report.html has been written.
ReportWritten == mainPc = "reported"

\* The main thread has ended after the scheduler loop, by reaching the end
\* of the main block or by an exception raised in push_to_influx.
MainEnded == mainPc \in {"reported", "aborted"}

\* C12: a run that has collected all futures ends with the raw dump and the
\* report written, whatever the tasks did and whether or not a write to the
\* sink failed.
C12_CompletedRunYieldsReport == MainEnded => (DumpWritten /\ ReportWritten)

\* A consumer of all_metrics (sink push, raw dump, report) has started.
Consuming == mainPc \in {"push", "aborted", "dump", "report", "reported"}

IsPrefix(a, b) == Len(a) <= Len(b) /\ SubSeq(b, 1, Len(a)) = a

\* C13: all_metrics starts empty and every step only appends to it, without
\* removing or changing a record; a consumer runs only when every submitted
\* call has finished and been collected, and once a consumer has started
\* all_metrics never changes again.
C13_GrowsThenFrozen ==
    /\ all_metrics = <<>>
    /\ [][/\ IsPrefix(all_metrics, all_metrics')
          /\ Consuming' =>
                /\ collected' = Tasks
                /\ \A t \in Tasks : state'[t] = "finished"
          /\ Consuming => all_metrics' = all_metrics]_vars

C13_Witness ==
    /\ mainPc = "reported"
    /\ Len(all_metrics) = 2 * Iterations
    /\ Len(writes) = Len(all_metrics)
    /\ Len(rows) = 2

\* --------------------------------------------------------- sampling order

\* The samples of one iteration, in the order they were taken.
SamplesOf(tr) == SelectSeq(samples[tr[1]], LAMBDA x : x[1] = tr[2])

\* A sample of the iteration was taken in the given phase of its container.
SampledIn(tr, phase) ==
    \E k \in 1 .. Len(samples[tr[1]]) : samples[tr[1]][k] = <<tr[2], phase>>

\* The container of the iteration was started and the iteration is over.
RanAndOver(tr) == outcome[tr] \in {"stats_raises", "wait_timeout", "exit_zero", "exit_nonzero"}

PullHangs(t) ==
    /\ state[t] = "pull"
    /\ state' = [state EXCEPT ![t] = "blocked"]
    /\ UNCHANGED <<mainVars, samples, iter, container, metrics, existing, runCalls,
                   pullFailed, outcome>>

\* The run with calls that may never complete on their own.  A container that
\* never ends is the "wait_timeout" outcome of Wait: wait(timeout=timeout)
\* raises when the bound is reached.
NextHang ==
    \/ Next
    \/ \E t \in Tasks : PullHangs(t)

SpecHang == Init /\ [][NextHang]_vars

FairHang == SpecHang /\ WF_vars(NextHang)

\* C15: no blocking call blocks for ever, so that under fair scheduling a
\* run that has started submitting its tasks ends: every call has finished
\* and the main thread has left the pool.
C15_RunTerminates ==
    (mainPc = "submit") ~> (AllCollected /\ \A t \in Tasks : state[t] = "finished")
\* ------------------------------------------------------- unlocked appends

RECURSIVE SumLen(_, _)
SumLen(ms, S) ==
    IF S = {} THEN 0
    ELSE LET t == CHOOSE x \in S : TRUE
         IN  Len(ms[t]) + SumLen(ms, S \ {t})

\* The step appends to the local list of task t, inside t's own call.
WorkerAppends(t) ==
    /\ state[t] = "wait"
    /\ IsPrefix(metrics[t], metrics'[t])
    /\ \A u \in Tasks \ {t} : metrics'[u] = metrics[u]
    /\ all_metrics' = all_metrics
    /\ collected' = collected

\* The step is the main thread taking the list of a call that has returned.
MainExtends ==
    \E t \in Tasks \ collected :
        /\ state[t] = "finished"
        /\ collected' = collected \cup {t}
        /\ all_metrics' = all_metrics \o metrics[t]
        /\ metrics' = metrics
        /\ state' = state

\* C16: a local list changes only by an append of its own worker, all_metrics
\* changes only by the main thread appending the whole list of a call that has
\* already returned, and all_metrics holds every record of the collected
\* lists exactly once, whatever the interleaving.
C16_AppendsAreSafe ==
    /\ [][/\ \A t \in Tasks : metrics'[t] # metrics[t] => WorkerAppends(t)
          /\ (all_metrics' # all_metrics \/ collected' # collected) => MainExtends]_vars
    /\ [](/\ Len(all_metrics) = SumLen(metrics, collected)
          /\ \A t \in collected : \A k \in 1 .. Len(metrics[t]) :
                Cardinality({j \in 1 .. Len(all_metrics) :
                                all_metrics[j] = metrics[t][k]}) = 1)

\* Two containers of different workers run at the same time, each in the
\* second iteration of its task.
C16_Witness ==
    \E t, u \in Tasks :
        /\ t # u
        /\ state[t] = "wait" /\ container[t] /\ Len(metrics[t]) = 1
        /\ state[u] = "wait" /\ container[u] /\ Len(metrics[u]) = 1
\* ------------------------------------------------- fields of one record

\* A value of the stats dictionary that may be missing: <<>> when the key is
\* absent, <<v>> when it is there.
Get(field, default) == IF field = <<>> THEN default ELSE field[1]

\* The readings container.stats may return: each of the keys run_workload
\* looks up is there or not.  percpu is the length of the percpu_usage list.
StatsReadings ==
    [cpu_total    : {<<>>, <<100>>, <<200>>},
     precpu_total : {<<>>, <<100>>},
     sys_total    : {<<>>, <<2000>>},
     precpu_sys   : {<<>>, <<1000>>},
     percpu       : {<<>>, <<0>>, <<2>>},
     mem_usage    : {<<>>, <<0>>, <<50>>},
     mem_limit    : {<<>>, <<100>>}]

\* a / b of the percentages, rounded down to a whole number.
Quot(a, b) == IF b > 0 THEN a \div b ELSE (0 - a) \div (0 - b)

\* cpu_percent = (cpu_delta/sys_delta)*cpu_count*100 if sys_delta else 0.0
cpu_percent(st) ==
    LET cpu_delta == Get(st.cpu_total, 0) - Get(st.precpu_total, 0)
        sys_delta == Get(st.sys_total, 0) - Get(st.precpu_sys, 0)
        cpu_count == Get(st.percpu, 0)
    IN  IF sys_delta # 0 THEN Quot(cpu_delta * cpu_count * 100, sys_delta) ELSE 0

\* mem_usage = stats.get("memory_stats", {}).get("usage", 0)
mem_usage(st) == Get(st.mem_usage, 0)

\* mem_percent = (mem_usage/mem_limit)*100 if mem_limit else 0.0
mem_percent(st) ==
    LET mem_limit == Get(st.mem_limit, 0)
    IN  IF mem_limit # 0 THEN Quot(mem_usage(st) * 100, mem_limit) ELSE 0

\* The resource fields of the record appended for a reading.
ComputeFields ==
    /\ mainPc = "compute"
    /\ computed' = [cpu_percent |-> cpu_percent(stats),
                    mem_percent |-> mem_percent(stats),
                    mem_usage_bytes |-> mem_usage(stats)]
    /\ mainPc' = "computed"
    /\ UNCHANGED <<envWorkers, nextSubmit, state, iter, container, metrics,
                   collected, all_metrics, rows, existing, runCalls, pullFailed,
                   outcome, writes, samples, stats>>

InitStats ==
    /\ envWorkers = 0
    /\ mainPc = "compute"
    /\ nextSubmit = 1
    /\ state = [t \in Tasks |-> "wait"]
    /\ iter = [t \in Tasks |-> 1]
    /\ container = [t \in Tasks |-> TRUE]
    /\ metrics = [t \in Tasks |-> <<>>]
    /\ collected = {}
    /\ all_metrics = <<>>
    /\ rows = <<>>
    /\ existing = NumTasks
    /\ runCalls = {<<t, 1>> : t \in Tasks}
    /\ pullFailed = {}
    /\ outcome = [tr \in Triples |-> "none"]
    /\ writes = <<>>
    /\ samples = [t \in Tasks |-> <<<<1, "started">>>>]
    /\ stats \in StatsReadings
    /\ computed = <<>>

NextStats == ComputeFields

SpecStats == InitStats /\ [][NextStats]_vars

CpuAbsent(st) ==
    <<>> \in {st.cpu_total, st.precpu_total, st.sys_total, st.precpu_sys, st.percpu}

MemAbsent(st) == <<>> \in {st.mem_usage, st.mem_limit}

\* C17: a reading that is absent from the stats is never recorded as zero:
\* the field computed from it (cpu_percent, mem_percent, mem_usage_bytes)
\* differs from the 0 a genuine reading of zero gives.
C17_AbsentIsNotZero ==
    mainPc = "computed" =>
        /\ CpuAbsent(stats) => computed.cpu_percent # 0
        /\ MemAbsent(stats) => computed.mem_percent # 0
        /\ stats.mem_usage = <<>> => computed.mem_usage_bytes # 0
\* ------------------------------------------------------- rows of the report

RowKey(r) == <<r[1], r[2]>>
RowKeys(rs) == [k \in 1 .. Len(rs) |-> RowKey(rs[k])]

\* The orders in which a list of n records can be arranged.
Perms(n) == {f \in [1 .. n -> 1 .. n] : \A k, l \in 1 .. n : k # l => f[k] # f[l]}
Permuted(ms, f) == [k \in 1 .. Len(ms) |-> ms[f[k]]]

\* C18: the report has exactly one row for every (image, workload) pair of
\* the result list, the rows are in ascending order of (image, workload),
\* and every rearrangement of the result list gives the same row keys in
\* the same order.
C18_OneRowPerPairInOrder ==
    mainPc = "reported" =>
        /\ {RowKey(rows[k]) : k \in 1 .. Len(rows)} = ReportKeys
        /\ Len(rows) = Cardinality(ReportKeys)
        /\ \A k, l \in 1 .. Len(rows) : k < l => KeyLess(rows[k], rows[l])
        /\ \A f \in Perms(Len(all_metrics)) :
              RowKeys(generate_html_report(Permuted(all_metrics, f))) = RowKeys(rows)

\* Three groups that arrive in descending order of their keys.
C18_Witness ==
    /\ mainPc = "reported"
    /\ Len(all_metrics) = 3
    /\ Len(rows) = 3
    /\ KeyLess(KeyOf(all_metrics[3]), KeyOf(all_metrics[2]))
    /\ KeyLess(KeyOf(all_metrics[2]), KeyOf(all_metrics[1]))
\* ------------------------------------------------ the list of one call

\* C19: the list of a run_workload call holds a record for iteration i
\* exactly when the pull succeeded and containers.run, stats and wait all
\* returned for that iteration, whatever the exit status, which the record
\* carries; a call whose pull failed has an empty list.
C19_RecordIffWaitReturned ==
    [](\A t \in Tasks :
        /\ t \in pullFailed => metrics[t] = <<>>
        /\ \A i \in Iters :
              (\E k \in 1 .. Len(metrics[t]) : metrics[t][k].iteration = i)
                 <=> (t \notin pullFailed /\ Completed(t, i))
        /\ \A k \in 1 .. Len(metrics[t]) :
              LET i == metrics[t][k].iteration
              IN  /\ <<t, i>> \in runCalls
                  /\ SampledIn(<<t, i>>, "started")
                  /\ metrics[t][k].status = StatusCode(outcome[<<t, i>>]))

C19_Witness ==
    \E t, u \in Tasks :
        /\ state[t] = "finished" /\ state[u] = "finished"
        /\ u \in pullFailed
        /\ outcome[<<t, 1>>] = "exit_nonzero"
        /\ outcome[<<t, 2>>] = "run_raises"
        /\ Len(metrics[t]) = 1
        /\ metrics[t][1].iteration = 1
        /\ metrics[t][1].status = StatusCode("exit_nonzero")

TripleOf(m) == <<m.image, m.workload, m.iteration>>

\* C20: the records of one run_workload call carry the image and the
\* workload name of that call and iteration numbers within 1..iterations
\* in strictly increasing order, and all_metrics never holds two records
\* with the same (image, workload, iteration).
C20_RecordsAreDistinct ==
    [](/\ \A t \in Tasks : \A k \in 1 .. Len(metrics[t]) :
            /\ metrics[t][k].image = TaskImage(t)
            /\ metrics[t][k].workload = basename(TaskScript(t))
            /\ metrics[t][k].iteration \in 1 .. Iterations
            /\ k > 1 => metrics[t][k - 1].iteration < metrics[t][k].iteration
       /\ \A k, l \in 1 .. Len(all_metrics) :
            k < l => TripleOf(all_metrics[k]) # TripleOf(all_metrics[l]))

C20_Witness ==
    /\ AllCollected
    /\ envWorkers = 0
    /\ Len(all_metrics) = NumTasks * Iterations
    /\ \A k \in 1 .. Len(all_metrics) : all_metrics[k].status = StatusCode("exit_nonzero")
====
